---- MODULE Spec2Model ----
(***************************************************************************)
(* A model of antenati.py: the AntenatiDownloader class and main().        *)
(*                                                                         *)
(* run() is modelled with its threads: the main thread (submit loop,       *)
(* set_total, the as_completed loop, the exit of the with statement) and   *)
(* one unit of work (__thread_main) per canvas, executed by the            *)
(* ThreadPoolExecutor's workers over the blocking HTTPSConnectionPool.     *)
(***************************************************************************)
EXTENDS Integers, Sequences, FiniteSets, TLC

(* ------------------------------ bounds -------------------------------- *)

\* Largest number of canvases selected for one run.
MaxCanvases == 3
\* Largest n_workers (ThreadPoolExecutor max_workers) tried.
MaxWorkers == 2
\* Largest n_connections (HTTPSConnectionPool maxsize) tried.
MaxConnections == 2

(* ------------------------- characters and text ------------------------ *)

\* Text is a sequence of one-character strings.
Digits == <<"1", "2", "3", "4", "5", "6", "7", "8", "9", "0">>

DigitSet == {Digits[i] : i \in 1..Len(Digits)}

LowerLetters == {"a", "b", "e", "g", "p", "u"}

\* str.lower() on one character (what slugify's lowercase=True applies).
Lower(c) == IF c = "P" THEN "p" ELSE IF c = "G" THEN "g" ELSE c

\* unidecode of one character: transliteration to ASCII.
Unidecode(c) == IF c = "è" THEN "e" ELSE c

IsAlnum(c) == c \in DigitSet \/ c \in LowerLetters

RECURSIVE SlugRaw(_)
\* slugify, before the separators at the ends are stripped: every character is
\* transliterated and lower-cased, every run of characters outside [a-z0-9]
\* becomes one "-".
SlugRaw(s) ==
  IF s = <<>> THEN <<>>
  ELSE LET c == Lower(Unidecode(Head(s)))
           rest == SlugRaw(Tail(s))
       IN IF IsAlnum(c) THEN <<c>> \o rest
          ELSE IF rest # <<>> /\ Head(rest) = "-" THEN rest
          ELSE <<"-">> \o rest

StripLeft(s) == IF s # <<>> /\ Head(s) = "-" THEN Tail(s) ELSE s

StripRight(s) ==
  IF s # <<>> /\ s[Len(s)] = "-" THEN SubSeq(s, 1, Len(s) - 1) ELSE s

\* slugify(text) of the python-slugify package with its default arguments.
slugify(s) == StripRight(StripLeft(SlugRaw(s)))

(* --------------------- content type and extension --------------------- *)

\* A Content-Type header value is a sequence of tokens, e.g.
\* <<"Image", "/", "JPEG", ";", "charset">>.
LowerToken(t) ==
  IF t = "Image" THEN "image"
  ELSE IF t = "JPEG" THEN "jpeg"
  ELSE IF t = "Application" THEN "application"
  ELSE t

RECURSIVE BeforeParams(_)
\* The header value up to its first ";" (the parameters are dropped).
BeforeParams(h) ==
  IF h = <<>> \/ Head(h) = ";" THEN <<>>
  ELSE <<Head(h)>> \o BeforeParams(Tail(h))

SlashCount(h) == Cardinality({i \in 1..Len(h) : h[i] = "/"})

\* __get_content_type: email.message.Message.get_content_type() of the header:
\* the type before the parameters, lower-cased; a value that is not
\* maintype/subtype reads as the default type text/plain.
get_content_type(h) ==
  LET ctype == BeforeParams(h)
      low == [i \in 1..Len(ctype) |-> LowerToken(ctype[i])]
  IN IF SlashCount(low) # 1 THEN <<"text", "/", "plain">> ELSE low

\* No extension is known (guess_extension returns None).
NoExtension == "none"

\* mimetypes.guess_extension(content_type) on the standard table.
guess_extension(ct) ==
  IF ct = <<"image", "/", "jpeg">> THEN ".jpg"
  ELSE IF ct = <<"image", "/", "png">> THEN ".png"
  ELSE IF ct = <<"text", "/", "plain">> THEN ".txt"
  ELSE IF ct = <<"application", "/", "octet-stream">> THEN ".bin"
  ELSE NoExtension

(* ------------------------ the image host's replies -------------------- *)

JpegHeader == <<"image", "/", "jpeg">>

JpegParamHeader == <<"Image", "/", "JPEG", ";", "charset">>

\* A type the standard table has no extension for, sent with a capital and
\* a parameter.
UnknownHeader == <<"Application", "/", "x-unknown", ";", "charset">>

\* The payload the host sends for canvas u when it sends n bytes.
Payload(u, n) == [i \in 1..n |-> u]

Reply(status, header, size) ==
  [status |-> status, header |-> header, size |-> size]

\* What pool.request('GET', url) can return for one canvas: a status, a
\* Content-Type header and a body length.
Replies ==
  { Reply(200, JpegHeader, 1),
    Reply(200, JpegParamHeader, 2),
    Reply(200, UnknownHeader, 1),
    Reply(404, UnknownHeader, 1) }

NoReply == [status |-> 0, header |-> <<>>, size |-> 0]

(* ------------------------------ galleries ----------------------------- *)

\* A canvas of the manifest: canvas['label'] and
\* canvas['images'][0]['resource']['@id'] (the number stands for the URL).
Canvas(label, id) == [label |-> label, id |-> id]

\* A manifest whose labels give pairwise distinct slugs: "Pg 1", "Pg 2", ...
DistinctCanvases == [i \in 1..(MaxCanvases + 1) |->
                       Canvas(<<"P", "g", " ", Digits[i]>>, i)]

\* A manifest whose first two labels, "Pg 1" and "pg-1", give the same slug.
CollidingCanvases == [i \in 1..(MaxCanvases + 1) |->
                        IF i = 2 THEN Canvas(<<"p", "g", "-", "1">>, 2)
                        ELSE Canvas(<<"P", "g", " ", Digits[i]>>, i)]

ManifestCanvases == {DistinctCanvases, CollidingCanvases}

\* The selections run() is started on: up to MaxCanvases canvases with
\* distinct file names, and the pair whose file names collide.
Galleries ==
  {SubSeq(DistinctCanvases, 1, n) : n \in 0..MaxCanvases}
    \cup {SubSeq(CollidingCanvases, 1, 2)}

(* --------------------------- gallery opening -------------------------- *)

IsDigit(c) == c \in DigitSet

\* A findall that reports every digit as a token of its own.
FindAllDigitsSingle(s, run) ==
  [i \in 1..Cardinality({j \in 1..Len(s) : IsDigit(s[j])}) |->
     <<s[CHOOSE j \in 1..Len(s) :
           /\ IsDigit(s[j])
           /\ Cardinality({k \in 1..j : IsDigit(s[k])}) = i]>>]

RECURSIVE FindAllDigits(_, _)
\* findall(r'(\d+)', s): the maximal runs of digits of s, left to right;
\* run is the run of digits being read.
FindAllDigits(s, run) ==
  IF s = <<>> THEN (IF run = <<>> THEN <<>> ELSE <<run>>)
  ELSE IF IsDigit(Head(s)) THEN FindAllDigits(Tail(s), Append(run, Head(s)))
  ELSE (IF run = <<>> THEN <<>> ELSE <<run>>) \o FindAllDigits(Tail(s), <<>>)

\* Gallery page locators: two numeric tokens, one, none.
Locators ==
  { <<"a", "/", "1", "2", "/", "5">>,
    <<"a", "/", "1", "2">>,
    <<"a", "/">> }

\* Further locators: three tokens, a token at the very start, tokens
\* followed by other text, a single digit.
OpenLocators ==
  Locators \cup { <<"a", "1", "/", "2", "3", "/", "4">>,
                  <<"1", "a", "2", "0", "b", "3">>,
                  <<"a", "7", "b">>,
                  <<"9", "/", "8">> }

\* Failures of main() outside run().
NoError == [kind |-> "none"]

\* RuntimeError(f'Cannot get archive ID from {self.url}') (line 81).
MalformedLocator == [kind |-> "MalformedLocator"]

\* RuntimeError(f'{self.url}: HTTP error {status}') (lines 107 and 119).
DiscoveryError(status) == [kind |-> "UpstreamError", status |-> status]

\* RuntimeError(f'No IIIF manifest found at {self.url}') (line 112).
ManifestNotFound == [kind |-> "ManifestNotFound"]

\* RuntimeError(f'Invalid IIIF manifest line found at {self.url}') (line 115).
MalformedManifestLine == [kind |-> "MalformedManifestLine"]

\* RuntimeError(f'Cannot get {label} from manifest') (line 128).
MetadataFieldMissing(label) ==
  [kind |-> "MetadataFieldMissing", label |-> label]

\* RuntimeError(f'Directory {self.dirname} already exists.') (lines 162-164).
DirectoryAlreadyExists(dir) ==
  [kind |-> "DirectoryAlreadyExists", dirname |-> dir]

\* The kinds of failure the program raises itself, as RuntimeError.
TaxonomyKinds ==
  {"MalformedLocator", "UpstreamError", "ManifestNotFound",
   "MalformedManifestLine", "MetadataFieldMissing", "UnknownContentType",
   "DirectoryAlreadyExists"}

\* http_reply.data.decode(None) (lines 109 and 121): bytes.decode refuses a
\* charset of None with a TypeError, which no handler catches.
DecodeTypeError == [kind |-> "TypeError"]

\* manifest[key] or canvas[key] on a dict without that key (lines 58, 126,
\* 261): a KeyError, which no handler catches.
KeyError(key) == [kind |-> "KeyError", key |-> key]

\* click.Abort out of confirm() in check_dir (line 166).
Aborted == [kind |-> "Abort"]

\* A line of the landing page is a sequence of elements: the token
\* "manifestId", the quote "'", characters of URLs ("u", ":", "/") and
\* other characters (" ", "=").
Marker == "manifestId"

\* 'manifestId' in line (line 110).
HasMarker(line) == \E i \in 1..Len(line) : line[i] = Marker

\* The class [A-Za-z0-9.:/-] of the pattern of line 113.
IsUrlElement(e) == e \in {"u", ":", "/", Marker}

RECURSIVE UrlRun(_)
\* The longest prefix of s made of URL characters.
UrlRun(s) ==
  IF s = <<>> \/ ~IsUrlElement(Head(s)) THEN <<>>
  ELSE <<Head(s)>> \o UrlRun(Tail(s))

NoMatch == <<"no match">>

RECURSIVE SearchQuotedUrl(_)
\* search(r'\'([A-Za-z0-9.:/-]*)\'', line).group(1): the leftmost quote that
\* is followed by URL characters only up to the next quote; NoMatch if none.
SearchQuotedUrl(line) ==
  IF line = <<>> THEN NoMatch
  ELSE IF Head(line) = "'"
          /\ Len(UrlRun(Tail(line))) < Len(Tail(line))
          /\ Tail(line)[Len(UrlRun(Tail(line))) + 1] = "'"
    THEN UrlRun(Tail(line))
  ELSE SearchQuotedUrl(Tail(line))

NoLine == <<"no line">>

RECURSIVE LastMarkerLine(_)
\* A scan that keeps the last line with the marker instead of the first.
LastMarkerLine(lines) ==
  IF lines = <<>> THEN NoLine
  ELSE IF LastMarkerLine(Tail(lines)) # NoLine
    THEN LastMarkerLine(Tail(lines))
  ELSE IF HasMarker(Head(lines)) THEN Head(lines)
  ELSE NoLine

RECURSIVE FirstMarkerLine(_)
\* next((line for line in html_content if 'manifestId' in line), None).
FirstMarkerLine(lines) ==
  IF lines = <<>> THEN NoLine
  ELSE IF HasMarker(Head(lines)) THEN Head(lines)
  ELSE FirstMarkerLine(Tail(lines))

\* Landing pages: with a manifest line, without a marker, with a marker
\* line that holds no quoted URL, and with such a line before a good one.
GoodLine == <<Marker, ":", " ", "'", "u", ":", "/", "u", "'">>

Pages ==
  { << <<" ", "u">>, GoodLine >>,
    << <<" ", "u">>, <<"'", "u", "'">> >>,
    << <<Marker, ":", " ", "u">> >>,
    << <<Marker, "=">>, GoodLine >> }

\* Message.get_content_charset() (lines 92-96) of a reply whose Content-Type
\* header has no charset parameter.
NoCharset == "None"

LandingReply(status, charset, body) ==
  [status |-> status, charset |-> charset, body |-> body]

NoLanding == LandingReply(0, NoCharset, <<>>)

\* Replies to the first GET: every page with status 200 and a charset, a
\* page with and a page without the marker served without a charset, and a
\* page with a manifest line served with status 403.
LandingReplies ==
  {LandingReply(200, "utf-8", b) : b \in Pages}
    \cup {LandingReply(200, NoCharset, << <<" ", "u">>, GoodLine >>),
          LandingReply(200, NoCharset, << <<Marker, ":", " ", "u">> >>),
          LandingReply(403, "utf-8", << GoodLine >>)}

\* The metadata array of a manifest: entries {label, value}.
Entry(label, value) == [label |-> label, value |-> value]

FullMetadata ==
  << Entry("Contesto archivistico", <<"G", " ", "e">>),
     Entry("Titolo", <<"1", "8">>),
     Entry("Tipologia", <<"p">>),
     Entry("Titolo", <<"1", "9">>),
     Entry("Datazione", <<"1", "8">>),
     Entry("Conservato da", <<"G">>) >>

\* Without "Tipologia", which the directory name needs.
MetadataNoTipologia == SubSeq(FullMetadata, 1, 2)

\* Without "Datazione" and "Conservato da", which only gallery_info needs.
MetadataNoDatazione == SubSeq(FullMetadata, 1, 4)

\* The JSON document of a manifest. shape tells which of the keys the code
\* indexes are there: "ok" all of them, "no_sequences" no 'sequences' key,
\* "no_metadata" no 'metadata' key, "no_label" canvases without 'label'.
ShapedManifest(cs, md, shape) ==
  [canvases |-> cs, metadata |-> md, shape |-> shape]

Manifest(cs, md) == ShapedManifest(cs, md, "ok")

NoManifest == Manifest(<<>>, <<>>)

\* Manifests of the shape the code expects.
WellFormedManifests ==
  { Manifest(SubSeq(DistinctCanvases, 1, MaxCanvases), FullMetadata),
    Manifest(SubSeq(DistinctCanvases, 1, 1), MetadataNoTipologia),
    Manifest(SubSeq(DistinctCanvases, 1, 1), MetadataNoDatazione) }

\* Manifests of another structure.
OtherManifests ==
  { ShapedManifest(<<>>, FullMetadata, "no_sequences"),
    ShapedManifest(SubSeq(DistinctCanvases, 1, 1), <<>>, "no_metadata"),
    ShapedManifest(SubSeq(DistinctCanvases, 1, 1), FullMetadata,
                   "no_label") }

Manifests == WellFormedManifests \cup OtherManifests

ManifestReply(status, charset, m) ==
  [status |-> status, charset |-> charset, manifest |-> m]

NoManifestReply == ManifestReply(0, NoCharset, NoManifest)

\* Replies to the second GET: every manifest with status 200 and a charset,
\* a manifest served without a charset, and a reply with status 404.
ManifestReplies ==
  {ManifestReply(200, "utf-8", m) : m \in Manifests}
    \cup {ManifestReply(200, NoCharset,
             Manifest(SubSeq(DistinctCanvases, 1, 1), FullMetadata)),
          ManifestReply(404, "utf-8", NoManifest)}

RECURSIVE MetadataLookupLast(_, _)
\* A lookup that returns the value of the last entry with the label.
MetadataLookupLast(md, label) ==
  IF md = <<>> THEN NoMatch
  ELSE IF MetadataLookupLast(Tail(md), label) # NoMatch
    THEN MetadataLookupLast(Tail(md), label)
  ELSE IF Head(md).label = label THEN Head(md).value
  ELSE NoMatch

RECURSIVE MetadataLookup(_, _)
\* next(i['value'] for i in metadata if i['label'] == label) (line 126);
\* NoMatch when the generator is exhausted (StopIteration).
MetadataLookup(md, label) ==
  IF md = <<>> THEN NoMatch
  ELSE IF Head(md).label = label THEN Head(md).value
  ELSE MetadataLookup(Tail(md), label)

\* A lookup whose failure is swallowed: no label is ever reported missing.
FirstMissingNone(md, labels) == ""

RECURSIVE FirstMissing(_, _)
\* The first label among labels (looked up in this order) that the metadata
\* lacks, for which __get_metadata_content raises; "" when none is missing.
FirstMissing(md, labels) ==
  IF labels = <<>> THEN ""
  ELSE IF MetadataLookup(md, Head(labels)) = NoMatch THEN Head(labels)
  ELSE FirstMissing(md, Tail(labels))

\* The labels __generate_dirname reads, in order (lines 132-134).
DirnameLabels == <<"Contesto archivistico", "Titolo", "Tipologia">>

\* The labels gallery_info reads, in order (lines 149-153).
InfoLabels ==
  <<"Titolo", "Tipologia", "Datazione", "Contesto archivistico",
    "Conservato da">>

\* gallery_info() (lines 145-154): the url and the values it looks up, by
\* key.
gallery_info(u, md) ==
  [url |-> u,
   subtitles |-> MetadataLookup(md, "Titolo"),
   category |-> MetadataLookup(md, "Tipologia"),
   director |-> MetadataLookup(md, "Datazione"),
   comments |-> MetadataLookup(md, "Contesto archivistico"),
   actors |-> MetadataLookup(md, "Conservato da")]

NoInfo == gallery_info(<<>>, <<>>)

\* list(gallery_info().keys()) + ['mediatype', 'Languages'] (line 265).
CsvHeader ==
  <<"url", "subtitles", "category", "director", "comments", "actors",
    "mediatype", "Languages">>

\* list(gallery_info().values()) (line 260), in the order of the dict.
InfoValues(i) ==
  <<i.url, i.subtitles, i.category, i.director, i.comments, i.actors>>

\* save_csv_file('info.csv', header, [p1 + p2 for p2 in body2]) (lines
\* 225-231, 260-267): the header row, then a row per selected canvas with
\* the slug of its label and the url of its image.
CsvContent(i, cs) ==
  <<CsvHeader>>
    \o [k \in 1..Len(cs) |->
         InfoValues(i) \o <<slugify(cs[k].label), cs[k].id>>]

CsvName == <<"i", "n", "f", "o", ".csv">>

\* A directory is a function from file names to contents.
EmptyDir == <<>>

\* A directory left by an earlier download: an image of three bytes under
\* the name the first canvas will get.
OldDir == (<<"p", "g", "-", "1", ".jpg">> :> <<9, 9, 9>>)

\* What the output directory can hold when it already exists.
ExistingDirs == {EmptyDir, OldDir}

\* The directories run() is entered in, before info.csv is added: a new
\* one for every gallery, a reused one for the galleries of up to two
\* canvases.
RunDirs(cs) == IF Len(cs) <= 2 THEN ExistingDirs ELSE {EmptyDir}

\* Directory d after open(name, 'w') or open(name, 'wb') and the write of
\* content: the file is created, or replaced.
WithFile(d, name, content) ==
  [f \in DOMAIN d \cup {name} |-> IF f = name THEN content ELSE d[f]]

\* slugify(f'{context}-{year}-{typology}-{self.archive_id}') (line 135).
generate_dirname(md, id) ==
  slugify(MetadataLookup(md, "Contesto archivistico") \o <<"-">>
            \o MetadataLookup(md, "Titolo") \o <<"-">>
            \o MetadataLookup(md, "Tipologia") \o <<"-">> \o id)

\* args.last is <<n>> for --last n and None when the option is absent.
None == <<>>

\* A slice bound i of a sequence of length n, as Python clamps it.
SliceBound(i, n) ==
  IF i < 0 THEN (IF n + i < 0 THEN 0 ELSE n + i)
  ELSE (IF i > n THEN n ELSE i)

\* seq[first:last] with last taken as the index of the last item selected.
PySliceInclusive(seq, f, l) ==
  LET lo == SliceBound(f, Len(seq))
      hi == IF l = None THEN Len(seq) ELSE SliceBound(l[1] + 1, Len(seq))
  IN SubSeq(seq, lo + 1, hi)

\* seq[first:last] (line 58), indices from 0, last None for the end.
PySlice(seq, f, l) ==
  LET lo == SliceBound(f, Len(seq))
      hi == IF l = None THEN Len(seq) ELSE SliceBound(l[1], Len(seq))
  IN SubSeq(seq, lo + 1, hi)

(* ------------------------------- state -------------------------------- *)

VARIABLES
  url,           \* self.url: the locator of the gallery page
  first,         \* args.first
  last,          \* args.last (None when absent)
  archive_id,    \* self.archive_id
  manifest_url,  \* the locator found in the landing page
  manifest,      \* self.manifest
  landing,       \* history: the reply to the first GET (NoLanding before)
  manifest_reply, \* history: the reply to the second GET
  info,          \* the dict gallery_info() gave main() (NoInfo before)
  dirname,       \* self.dirname
  gets,          \* number of discovery GETs issued
  csv_saved,     \* info.csv has been written
  main_error,    \* the failure that ended main() outside run()
  pc,            \* position of the main thread
  canvases,      \* self.canvases: the selected canvases
  gallery_length,\* self.gallery_length
  n_workers,     \* run()'s n_workers
  n_connections, \* run()'s n_connections
  submitted,     \* number of canvases handed to executor.submit so far
  ustate,        \* per unit: position of its __thread_main call
  reply,         \* per unit: the http_reply it received (NoReply before)
  result,        \* per unit: the outcome stored in its future
  pool_open,     \* FALSE once HTTPSConnectionPool.close() has run
  files,         \* the working directory: file name -> content
  total,         \* progress sink: the total given to set_total (-1: unset)
  ticks,         \* progress sink: number of update() calls
  gallery_size,  \* run()'s running total
  batch,         \* as_completed: futures already finished when it was called
  waitq,         \* as_completed: futures finished since, in finishing order
  outcome,       \* what run() hands to its caller
  first_failed,  \* history: the first unit whose future got an exception
  snap,          \* history: the futures found finished when as_completed began
  entered        \* history: the working directory as run() found it

openVars == <<url, first, last, archive_id, manifest_url, manifest, dirname,
              gets, csv_saved, main_error, landing, manifest_reply, info>>

vars == <<url, first, last, archive_id, manifest_url, manifest, dirname, gets,
          csv_saved, main_error, landing, manifest_reply, info,
          pc, canvases, gallery_length, n_workers,
          n_connections, submitted,
          ustate, reply, result, pool_open, files, total, ticks, gallery_size,
          batch, waitq, outcome, first_failed, snap, entered>>

\* The units of work: one future per submitted or to be submitted canvas.
Units == DOMAIN ustate

\* Futures' outcomes.
NoResult == [kind |-> "none"]

SizeResult(n) == [kind |-> "size", size |-> n]

\* RuntimeError(f'{url}: HTTP error {status}') (line 177).
UpstreamError(id, status) ==
  [kind |-> "UpstreamError", url |-> id, status |-> status]

\* RuntimeError(f'{url}: Unable to guess extension "{content_type}"')
\* (line 181).
UnknownContentType(id, ct) ==
  [kind |-> "UnknownContentType", url |-> id, content_type |-> ct]

\* urllib3's ClosedPoolError, raised by pool.request on a closed pool.
ClosedPoolError(id) == [kind |-> "ClosedPoolError", url |-> id]

IsFailure(r) == r.kind \notin {"none", "size"}

\* run()'s outcomes.
NoOutcome == [kind |-> "none"]

TotalOutcome(n) == [kind |-> "total", value |-> n]

FailureOutcome(cause) == [kind |-> "failure", cause |-> cause]

\* A unit occupies a worker thread from the moment a worker takes it off the
\* executor's queue until __thread_main returns or raises.
Executing(u) ==
  ustate[u] \in {"taken", "blocked", "inflight", "replied", "named",
                 "opened", "written"}

Finished(u) == ustate[u] \in {"done", "failed"}

ExecutingUnits == {u \in Units : Executing(u)}

\* Connections taken from the pool and not yet put back.
InUse == Cardinality({u \in Units : ustate[u] = "inflight"})

\* A file name made from the label as it is, not from its slug.
FileNameUnslugged(canvas, extension) == canvas.label \o <<extension>>

\* f'{label}{extension}' (lines 182-183).
FileName(canvas, extension) == slugify(canvas.label) \o <<extension>>

UnitFileName(u) ==
  FileName(canvases[u], guess_extension(get_content_type(reply[u].header)))

\* The unit and sink state before run() has done anything, for canvases cs.
FreshRun(cs) ==
  /\ submitted = 0
  /\ ustate = [u \in 1..Len(cs) |-> "new"]
  /\ reply = [u \in 1..Len(cs) |-> NoReply]
  /\ result = [u \in 1..Len(cs) |-> NoResult]
  /\ pool_open = TRUE
  /\ total = -1
  /\ ticks = 0
  /\ gallery_size = 0
  /\ batch = {}
  /\ waitq = <<>>
  /\ outcome = NoOutcome
  /\ first_failed = 0
  /\ snap = {}

\* The state at the entry of run() for a gallery opened by __init__ (whole
\* manifest selected), after main() has saved info.csv.
RunInit ==
  /\ pc = "submit"
  /\ canvases \in Galleries
  /\ url = <<"a", "/", "1", "2", "/", "5">>
  /\ first = 0
  /\ last = None
  /\ archive_id = <<"5">>
  /\ manifest_url = <<"u", ":", "/", "u">>
  /\ manifest = Manifest(canvases, FullMetadata)
  /\ landing = LandingReply(200, "utf-8", << GoodLine >>)
  /\ manifest_reply = ManifestReply(200, "utf-8", manifest)
  /\ info = gallery_info(url, FullMetadata)
  /\ dirname = generate_dirname(FullMetadata, archive_id)
  /\ gets = 2
  /\ csv_saved = TRUE
  /\ main_error = NoError
  /\ gallery_length = Len(canvases)
  /\ n_workers \in {1, MaxWorkers}
  /\ n_connections \in {1, MaxConnections}
  /\ files \in {WithFile(d, CsvName, CsvContent(info, canvases)) :
                  d \in RunDirs(canvases)}
  /\ entered = files
  /\ FreshRun(canvases)

\* Nothing of the gallery is known yet: main() has only parsed its arguments.
Unopened ==
  /\ pc = "main"
  /\ n_workers = MaxWorkers
  /\ n_connections = 1
  /\ archive_id = <<>>
  /\ manifest_url = <<>>
  /\ manifest = NoManifest
  /\ landing = NoLanding
  /\ manifest_reply = NoManifestReply
  /\ info = NoInfo
  /\ dirname = <<>>
  /\ gets = 0
  /\ csv_saved = FALSE
  /\ main_error = NoError
  /\ canvases = <<>>
  /\ gallery_length = 0
  /\ files = EmptyDir
  /\ entered = EmptyDir
  /\ FreshRun(<<>>)

\* The state when main() starts, with its arguments parsed.
MainInit ==
  /\ url \in Locators
  /\ first \in 0..2
  /\ last \in {None, <<1>>, <<2>>}
  /\ Unopened

\* The state when AntenatiDownloader(url, first, last) is called, for every
\* range of indices around the length of the manifests' canvas lists.
OpenInit ==
  /\ url \in OpenLocators
  /\ first \in 0..(MaxCanvases + 1)
  /\ last \in {None} \cup {<<n>> : n \in 0..(MaxCanvases + 1)}
  /\ Unopened

Init == RunInit

(* --------------------------- the work units --------------------------- *)

\* Future.set_result / set_exception of unit u: the future becomes finished
\* and, once as_completed has installed its waiter, joins the waiter's list.
Finish(u, st, r) ==
  /\ ustate' = [ustate EXCEPT ![u] = st]
  /\ result' = [result EXCEPT ![u] = r]
  /\ waitq' = IF pc = "iterate" THEN Append(waitq, u) ELSE waitq
  /\ first_failed' =
       IF IsFailure(r) /\ first_failed = 0 THEN u ELSE first_failed

\* An executor that starts a thread for every submitted unit.
WorkerFreeUnbounded == TRUE

\* ThreadPoolExecutor(max_workers): a queued unit is taken by a worker thread
\* only while fewer than max_workers units are executing.
WorkerFree == Cardinality(ExecutingUnits) < n_workers

\* HTTPSConnectionPool(maxsize, block=True): a connection is handed out only
\* while fewer than maxsize are in use.
ConnAvailable == InUse < n_connections

\* A worker takes the oldest queued unit (the executor's queue is FIFO) and
\* calls __thread_main, which reads the image's url (lines 172-174).
Start(u) ==
  /\ ustate[u] = "queued"
  /\ \A v \in Units : ustate[v] = "queued" => u <= v
  /\ WorkerFree
  /\ ustate' = [ustate EXCEPT ![u] = "taken"]
  /\ UNCHANGED <<openVars, pc, canvases, gallery_length, n_workers,
                 n_connections,
                 submitted, reply, result, pool_open, files, total, ticks,
                 gallery_size, batch, waitq, outcome, first_failed, snap,
                 entered>>

\* __thread_main calls pool.request (line 175), which asks the pool for a
\* connection: a closed pool raises, a saturated pool blocks.
Request(u) ==
  /\ ustate[u] = "taken"
  /\ IF ~pool_open
       THEN Finish(u, "failed", ClosedPoolError(canvases[u].id))
     ELSE IF ConnAvailable
       THEN /\ ustate' = [ustate EXCEPT ![u] = "inflight"]
            /\ UNCHANGED <<result, waitq, first_failed>>
     ELSE /\ ustate' = [ustate EXCEPT ![u] = "blocked"]
          /\ UNCHANGED <<result, waitq, first_failed>>
  /\ UNCHANGED <<openVars, pc, canvases, gallery_length, n_workers,
                 n_connections,
                 submitted, reply, pool_open, files, total, ticks,
                 gallery_size, batch, outcome, snap, entered>>

\* A unit blocked in pool.request gets a connection that was put back. The
\* queue it waits on is emptied and abandoned by close(), so nothing wakes it
\* once the pool is closed.
Unblock(u) ==
  /\ ustate[u] = "blocked"
  /\ pool_open
  /\ ConnAvailable
  /\ ustate' = [ustate EXCEPT ![u] = "inflight"]
  /\ UNCHANGED <<openVars, pc, canvases, gallery_length, n_workers,
                 n_connections,
                 submitted, reply, result, pool_open, files, total, ticks,
                 gallery_size, batch, waitq, outcome, first_failed, snap,
                 entered>>

\* Only the status check of lines 176-177: the reply's content type is not
\* checked before the file is named and opened.
UnitCheckStatusOnly(id, r) ==
  IF r.status # 200 THEN UpstreamError(id, r.status) ELSE NoResult

\* The two checks in the other order: the content type before the status.
UnitCheckTypeFirst(id, r) ==
  IF guess_extension(get_content_type(r.header)) = NoExtension
    THEN UnknownContentType(id, get_content_type(r.header))
  ELSE IF r.status # 200 THEN UpstreamError(id, r.status)
  ELSE NoResult

\* Lines 176-181 on reply r for the image at url id: the failure the unit
\* raises, or NoResult when the reply passes both checks.
UnitCheck(id, r) ==
  IF r.status # 200 THEN UpstreamError(id, r.status)
  ELSE IF guess_extension(get_content_type(r.header)) = NoExtension
    THEN UnknownContentType(id, get_content_type(r.header))
  ELSE NoResult

\* pool.request returns reply r (line 175): the body has been read and the
\* connection put back before it returns.
Respond(u, r) ==
  /\ ustate[u] = "inflight"
  /\ reply' = [reply EXCEPT ![u] = r]
  /\ ustate' = [ustate EXCEPT ![u] = "replied"]
  /\ UNCHANGED <<openVars, pc, canvases, gallery_length, n_workers,
                 n_connections,
                 submitted, result, pool_open, files, total, ticks,
                 gallery_size, batch, waitq, outcome, first_failed, snap,
                 entered>>

\* Lines 176-183 on the reply received: the status check, the content type,
\* the extension, the file name; a failed check raises out of
\* __thread_main and the future gets the exception.
CheckReply(u) ==
  /\ ustate[u] = "replied"
  /\ IF IsFailure(UnitCheck(canvases[u].id, reply[u]))
       THEN Finish(u, "failed", UnitCheck(canvases[u].id, reply[u]))
     ELSE /\ ustate' = [ustate EXCEPT ![u] = "named"]
          /\ UNCHANGED <<result, waitq, first_failed>>
  /\ UNCHANGED <<openVars, pc, canvases, gallery_length, n_workers,
                 n_connections,
                 submitted, reply, pool_open, files, total, ticks,
                 gallery_size, batch, outcome, snap, entered>>

\* open(filename, 'wb') (line 184): the file is created, or truncated.
OpenFile(u) ==
  /\ ustate[u] = "named"
  /\ ustate' = [ustate EXCEPT ![u] = "opened"]
  /\ files' = WithFile(files, UnitFileName(u), <<>>)
  /\ UNCHANGED <<openVars, pc, canvases, gallery_length, n_workers,
                 n_connections,
                 submitted, reply, result, pool_open, total, ticks,
                 gallery_size, batch, waitq, outcome, first_failed, snap,
                 entered>>

\* data written from offset 0 over content old.
WriteAt0(old, data) == data \o SubSeq(old, Len(data) + 1, Len(old))

\* img_file.write(http_reply.data) and the close of the file at the end of
\* the with block (lines 184-185).
WriteFile(u) ==
  /\ ustate[u] = "opened"
  /\ files' = [files EXCEPT ![UnitFileName(u)] =
                 WriteAt0(@, Payload(canvases[u].id, reply[u].size))]
  /\ ustate' = [ustate EXCEPT ![u] = "written"]
  /\ UNCHANGED <<openVars, pc, canvases, gallery_length, n_workers,
                 n_connections,
                 submitted, reply, result, pool_open, total, ticks,
                 gallery_size, batch, waitq, outcome, first_failed, snap,
                 entered>>

\* return len(http_reply.data) (lines 186-187): the future gets its result.
Return(u) ==
  /\ ustate[u] = "written"
  /\ Finish(u, "done", SizeResult(reply[u].size))
  /\ UNCHANGED <<openVars, pc, canvases, gallery_length, n_workers,
                 n_connections,
                 submitted, reply, pool_open, files, total, ticks,
                 gallery_size, batch, outcome, snap, entered>>

(* --------------------------- the main thread -------------------------- *)

\* executor.submit(self.__thread_main, pool, i) for the next canvas (line 215).
Submit ==
  /\ pc = "submit"
  /\ submitted < Len(canvases)
  /\ submitted' = submitted + 1
  /\ ustate' = [ustate EXCEPT ![submitted + 1] = "queued"]
  /\ UNCHANGED <<openVars, pc, canvases, gallery_length, n_workers,
                 n_connections,
                 reply, result, pool_open, files, total, ticks, gallery_size,
                 batch, waitq, outcome, first_failed, snap, entered>>

\* A sink that ignores set_total.
set_total_ignored(n) == -1

\* progress.set_total(n) (line 216): the total the sink holds afterwards.
set_total(n) == n

\* progress.set_total(self.gallery_length); gallery_size = 0 (lines 216-217).
SetTotal ==
  /\ pc = "submit"
  /\ submitted = Len(canvases)
  /\ total' = set_total(gallery_length)
  /\ gallery_size' = 0
  /\ pc' = "as_completed"
  /\ UNCHANGED <<openVars, canvases, gallery_length, n_workers,
                 n_connections, submitted,
                 ustate, reply, result, pool_open, files, ticks, batch, waitq,
                 outcome, first_failed, snap, entered>>

\* as_completed(future_img) starts (line 218): the futures already finished
\* are set aside as a set, and a waiter collects the others as they finish.
AsCompleted ==
  /\ pc = "as_completed"
  /\ batch' = {u \in Units : Finished(u)}
  /\ snap' = batch'
  /\ waitq' = <<>>
  /\ pc' = "iterate"
  /\ UNCHANGED <<openVars, canvases, gallery_length, n_workers,
                 n_connections, submitted,
                 ustate, reply, result, pool_open, files, total, ticks,
                 gallery_size, outcome, first_failed, entered>>

\* A slip in the accumulation: the total is overwritten by the last size.
AccumulateOverwrites(sum, size) == size

\* gallery_size += size (line 221).
Accumulate(sum, size) == sum + size

\* A sink advanced by two per call.
UpdateTwice(n) == n + 2

\* progress.update() (line 219): one tick.
Update(n) == n + 1

\* One turn of the loop for the future of unit u (lines 219-221):
\* progress.update(), then future.result(), which raises the unit's failure
\* out of the with statement, else the size is added.
Consume(u) ==
  /\ ticks' = Update(ticks)
  /\ IF IsFailure(result[u])
       THEN /\ outcome' = FailureOutcome(result[u])
            /\ pc' = "exit_pool"
            /\ UNCHANGED gallery_size
     ELSE /\ gallery_size' = Accumulate(gallery_size, result[u].size)
          /\ UNCHANGED <<outcome, pc>>

\* as_completed yields a future of the set it found finished, in the set's
\* own (arbitrary) order.
IterateBatch(u) ==
  /\ pc = "iterate"
  /\ u \in batch
  /\ batch' = batch \ {u}
  /\ Consume(u)
  /\ UNCHANGED <<openVars, canvases, gallery_length, n_workers,
                 n_connections, submitted,
                 ustate, reply, result, pool_open, files, total, waitq,
                 first_failed, snap, entered>>

\* as_completed yields the next future of the waiter's list, in finishing
\* order.
IterateWaiter ==
  /\ pc = "iterate"
  /\ batch = {}
  /\ waitq # <<>>
  /\ waitq' = Tail(waitq)
  /\ Consume(Head(waitq))
  /\ UNCHANGED <<openVars, canvases, gallery_length, n_workers,
                 n_connections, submitted,
                 ustate, reply, result, pool_open, files, total, batch,
                 first_failed, snap, entered>>

\* Every future has been yielded: return gallery_size (line 222).
ReturnTotal ==
  /\ pc = "iterate"
  /\ batch = {}
  /\ waitq = <<>>
  /\ \A u \in Units : Finished(u)
  /\ outcome' = TotalOutcome(gallery_size)
  /\ pc' = "exit_pool"
  /\ UNCHANGED <<openVars, canvases, gallery_length, n_workers,
                 n_connections, submitted,
                 ustate, reply, result, pool_open, files, total, ticks,
                 gallery_size, batch, waitq, first_failed, snap, entered>>

\* Leaving the with statement (line 214), innermost manager first:
\* HTTPSConnectionPool.__exit__ closes the pool.
ExitPool ==
  /\ pc = "exit_pool"
  /\ pool_open' = FALSE
  /\ waitq' = <<>>
  /\ pc' = "exit_executor"
  /\ UNCHANGED <<openVars, canvases, gallery_length, n_workers,
                 n_connections, submitted,
                 ustate, reply, result, files, total, ticks, gallery_size,
                 batch, outcome, first_failed, snap, entered>>

\* An executor left without waiting (shutdown(wait=False)).
DrainedNoWait == TRUE

\* The executor may be left once every submitted unit has finished.
Drained == \A u \in Units : Finished(u)

\* ThreadPoolExecutor.__exit__ is shutdown(wait=True): it returns when the
\* workers have run every submitted unit; then run() returns or raises.
ExitExecutor ==
  /\ pc = "exit_executor"
  /\ Drained
  /\ pc' = "done"
  /\ UNCHANGED <<openVars, canvases, gallery_length, n_workers,
                 n_connections, submitted,
                 ustate, reply, result, pool_open, files, total, ticks,
                 gallery_size, batch, waitq, outcome, first_failed, snap,
                 entered>>

RunNext ==
  \/ Submit
  \/ SetTotal
  \/ AsCompleted
  \/ \E u \in Units : IterateBatch(u)
  \/ IterateWaiter
  \/ ReturnTotal
  \/ ExitPool
  \/ ExitExecutor
  \/ \E u \in Units : Start(u)
  \/ \E u \in Units : Request(u)
  \/ \E u \in Units : Unblock(u)
  \/ \E u \in Units : \E r \in Replies : Respond(u, r)
  \/ \E u \in Units : CheckReply(u)
  \/ \E u \in Units : OpenFile(u)
  \/ \E u \in Units : WriteFile(u)
  \/ \E u \in Units : Return(u)

Next == RunNext

\* run() on an opened gallery.
Spec == Init /\ [][Next]_vars

(* ------------------------------- main() ------------------------------- *)

runVars == <<n_workers, n_connections, submitted, ustate, reply, result,
             pool_open, files, total, ticks, gallery_size, batch, waitq,
             outcome, first_failed, snap, entered>>

\* main() ends with failure e before run() is entered.
Abort(e) ==
  /\ main_error' = e
  /\ pc' = "aborted"

\* self.archive_id = self.__get_archive_id() (lines 56, 77-82).
GetArchiveId ==
  /\ pc = "main"
  /\ IF Len(FindAllDigits(url, <<>>)) < 2
       THEN Abort(MalformedLocator) /\ UNCHANGED archive_id
     ELSE /\ archive_id' = FindAllDigits(url, <<>>)[2]
          /\ pc' = "landing_get"
          /\ UNCHANGED main_error
  /\ UNCHANGED <<url, first, last, manifest_url, manifest, dirname, gets,
                 csv_saved, canvases, gallery_length, landing,
                 manifest_reply, info>>
  /\ UNCHANGED runVars

\* __get_iiif_manifest up to its second request (lines 100-116): the GET of
\* the landing page, answered by r, the decoding of its body and the search
\* for the manifest's URL.
LandingGet(r) ==
  /\ pc = "landing_get"
  /\ gets' = gets + 1
  /\ landing' = r
  /\ IF r.status # 200
       THEN Abort(DiscoveryError(r.status)) /\ UNCHANGED manifest_url
     ELSE IF r.charset = NoCharset
       THEN Abort(DecodeTypeError) /\ UNCHANGED manifest_url
     ELSE IF FirstMarkerLine(r.body) = NoLine
       THEN Abort(ManifestNotFound) /\ UNCHANGED manifest_url
     ELSE IF SearchQuotedUrl(FirstMarkerLine(r.body)) = NoMatch
       THEN Abort(MalformedManifestLine) /\ UNCHANGED manifest_url
     ELSE /\ manifest_url' = SearchQuotedUrl(FirstMarkerLine(r.body))
          /\ pc' = "manifest_get"
          /\ UNCHANGED main_error
  /\ UNCHANGED <<url, first, last, archive_id, manifest, dirname, csv_saved,
                 canvases, gallery_length, manifest_reply, info>>
  /\ UNCHANGED runVars

\* The rest of __get_iiif_manifest (lines 117-121): the GET of the manifest,
\* answered by r, and the decoding and parsing of its body.
ManifestGet(r) ==
  /\ pc = "manifest_get"
  /\ gets' = gets + 1
  /\ manifest_reply' = r
  /\ IF r.status # 200
       THEN Abort(DiscoveryError(r.status)) /\ UNCHANGED manifest
     ELSE IF r.charset = NoCharset
       THEN Abort(DecodeTypeError) /\ UNCHANGED manifest
     ELSE /\ manifest' = r.manifest
          /\ pc' = "select"
          /\ UNCHANGED main_error
  /\ UNCHANGED <<url, first, last, archive_id, manifest_url, dirname,
                 csv_saved, canvases, gallery_length, landing, info>>
  /\ UNCHANGED runVars

\* self.canvases = self.manifest['sequences'][0]['canvases'][first:last]
\* (line 58).
SelectCanvases ==
  /\ pc = "select"
  /\ IF manifest.shape = "no_sequences"
       THEN Abort(KeyError("sequences")) /\ UNCHANGED canvases
     ELSE /\ canvases' = PySlice(manifest.canvases, first, last)
          /\ pc' = "dirname"
          /\ UNCHANGED main_error
  /\ UNCHANGED <<url, first, last, archive_id, manifest_url, manifest,
                 dirname, gets, csv_saved, gallery_length, landing,
                 manifest_reply, info>>
  /\ UNCHANGED runVars

\* self.dirname = self.__generate_dirname(); self.gallery_length =
\* len(self.canvases) (lines 59-60, 123-135).
GenerateDirname ==
  /\ pc = "dirname"
  /\ IF manifest.shape = "no_metadata"
       THEN /\ Abort(KeyError("metadata"))
            /\ UNCHANGED <<dirname, gallery_length>>
     ELSE IF FirstMissing(manifest.metadata, DirnameLabels) # ""
       THEN /\ Abort(MetadataFieldMissing(
                       FirstMissing(manifest.metadata, DirnameLabels)))
            /\ UNCHANGED <<dirname, gallery_length>>
     ELSE /\ dirname' = generate_dirname(manifest.metadata, archive_id)
          /\ gallery_length' = Len(canvases)
          /\ pc' = "check_dir"
          /\ UNCHANGED main_error
  /\ UNCHANGED <<url, first, last, archive_id, manifest_url, manifest, gets,
                 csv_saved, canvases, landing, manifest_reply, info>>
  /\ UNCHANGED runVars

\* check_dir(dir, interactive) (lines 156-169), after print_gallery_info()
\* (line 254). existing is <<>> when the directory does not exist and <<d>>
\* when it exists and holds d; proceed is the user's answer to the prompt.
\* The directory is made if need be and entered.
CheckDir(dir, interactive, existing, proceed) ==
  /\ pc = "check_dir"
  /\ dirname' = IF dir = None THEN dirname ELSE dir \o <<"/">> \o dirname
  /\ IF existing # <<>> /\ ~interactive
       THEN Abort(DirectoryAlreadyExists(dirname'))
            /\ UNCHANGED <<files, entered>>
     ELSE IF existing # <<>> /\ ~proceed
       THEN Abort(Aborted) /\ UNCHANGED <<files, entered>>
     ELSE /\ pc' = "csv"
          /\ files' = IF existing = <<>> THEN EmptyDir ELSE existing[1]
          /\ entered' = files'
          /\ UNCHANGED main_error
  /\ UNCHANGED <<url, first, last, archive_id, manifest_url, manifest, gets,
                 csv_saved, canvases, gallery_length, landing,
                 manifest_reply, info>>
  /\ UNCHANGED <<n_workers, n_connections, submitted, ustate, reply, result,
                 pool_open, total, ticks, gallery_size, batch, waitq,
                 outcome, first_failed, snap>>

\* gallery_info(), the rows of the canvases and save_csv_file (lines
\* 260-267), then run_cli calls run() (line 270), which creates the
\* executor and the pool (line 214).
SaveCsv ==
  /\ pc = "csv"
  /\ IF FirstMissing(manifest.metadata, InfoLabels) # ""
       THEN /\ Abort(MetadataFieldMissing(
                       FirstMissing(manifest.metadata, InfoLabels)))
            /\ UNCHANGED <<csv_saved, info, files, entered, ustate, reply,
                           result>>
     ELSE IF manifest.shape = "no_label" /\ canvases # <<>>
       THEN /\ Abort(KeyError("label"))
            /\ info' = gallery_info(url, manifest.metadata)
            /\ UNCHANGED <<csv_saved, files, entered, ustate, reply, result>>
     ELSE /\ csv_saved' = TRUE
          /\ info' = gallery_info(url, manifest.metadata)
          /\ files' = WithFile(files, CsvName, CsvContent(info', canvases))
          /\ entered' = files'
          /\ pc' = "submit"
          /\ ustate' = [u \in 1..Len(canvases) |-> "new"]
          /\ reply' = [u \in 1..Len(canvases) |-> NoReply]
          /\ result' = [u \in 1..Len(canvases) |-> NoResult]
          /\ UNCHANGED main_error
  /\ UNCHANGED <<url, first, last, archive_id, manifest_url, manifest,
                 dirname, gets, canvases, gallery_length, landing,
                 manifest_reply>>
  /\ UNCHANGED <<n_workers, n_connections, submitted, pool_open,
                 total, ticks, gallery_size, batch, waitq, outcome,
                 first_failed, snap>>

MainNext ==
  \/ GetArchiveId
  \/ \E r \in LandingReplies : LandingGet(r)
  \/ \E r \in ManifestReplies : ManifestGet(r)
  \/ SelectCanvases
  \/ GenerateDirname
  \/ \E existing \in {<<>>} \cup {<<d>> : d \in ExistingDirs},
          proceed \in BOOLEAN : CheckDir(None, TRUE, existing, proceed)
  \/ SaveCsv
  \/ Next

\* main(): the gallery is opened, described and then run.
SpecMain == MainInit /\ [][MainNext]_vars

\* AntenatiDownloader.__init__ (lines 54-60).
OpenNext ==
  \/ GetArchiveId
  \/ \E r \in LandingReplies : LandingGet(r)
  \/ \E r \in ManifestReplies : ManifestGet(r)
  \/ SelectCanvases
  \/ GenerateDirname

\* The constructor alone, over all its arguments.
SpecOpen == OpenInit /\ [][OpenNext]_vars

(* ------------------------------ the claims ---------------------------- *)

RECURSIVE SumSizes(_)
\* b_1 + ... + b_n: the byte counts of the replies of units 1..n.
SumSizes(n) == IF n = 0 THEN 0 ELSE reply[n].size + SumSizes(n - 1)

AllSucceeded == \A u \in Units : ustate[u] = "done"

RunEnded == pc = "done"

\* C1: when run() has ended and every unit succeeded, run() returned exactly
\* the sum of the units' byte counts, whatever the order of completion and
\* whatever n_workers and n_connections.
C1_TotalIsSum ==
  (RunEnded /\ AllSucceeded) => outcome = TotalOutcome(SumSizes(Len(canvases)))

\* C1 witness: a run of three units with different byte counts, more workers
\* than connections, that returned their sum.
C1_Witness ==
  /\ RunEnded /\ AllSucceeded
  /\ Len(canvases) = 3
  /\ n_workers = 2 /\ n_connections = 1
  /\ reply[1].size = 2 /\ reply[2].size = 1 /\ reply[3].size = 2
  /\ outcome = TotalOutcome(5)

OkReply(r) == r.status = 200 /\ ~IsFailure(UnitCheck(0, r))

\* The names of the files made or rewritten since run() was entered.
Downloaded ==
  {f \in DOMAIN files : f \notin DOMAIN entered \/ files[f] # entered[f]}

DistinctNames ==
  \A u, v \in Units :
    u # v => slugify(canvases[u].label) # slugify(canvases[v].label)

\* C2 (as claimed): when run() has ended, exactly one unit got a non-200
\* reply (a 404) and no other unit got a reply that fails its checks, run()
\* failed with that unit's UpstreamError and at least N-1 files have been
\* written.
C2_OneFailureKeepsSiblingFiles ==
  \A u \in Units :
    ( /\ RunEnded
      /\ DistinctNames
      /\ reply[u].status = 404
      /\ \A v \in Units \ {u} : reply[v] = NoReply \/ OkReply(reply[v]) )
    => /\ outcome = FailureOutcome(UpstreamError(canvases[u].id, 404))
       /\ Cardinality(Downloaded) >= Len(canvases) - 1

\* C3 (as claimed): at most n_connections connections are in use, and a unit
\* that asks for a connection while n_connections are in use is left blocked:
\* it does not fail and takes no connection.
C3_SaturatedPoolBlocks ==
  [][ /\ InUse' <= n_connections
      /\ \A u \in Units :
           (ustate[u] = "taken" /\ ustate'[u] # "taken"
              /\ InUse = n_connections)
           => ustate'[u] = "blocked" ]_vars

\* C4: the units executing at the same time (started and not finished, those
\* blocked on the connection pool included) never exceed n_workers.
C4_WorkerLimit == Cardinality(ExecutingUnits) <= n_workers

\* C4 witness: n_workers units executing, one of them blocked on the pool,
\* while another unit waits in the executor's queue.
C4_Witness ==
  /\ n_workers = 2 /\ n_connections = 1
  /\ Cardinality(ExecutingUnits) = 2
  /\ \E u \in Units : ustate[u] = "blocked"
  /\ \E u \in Units : ustate[u] = "queued"

SomeFailed == \E u \in Units : ustate[u] = "failed"

\* C5 (as claimed): when run() has ended after some unit failed, it failed
\* with the cause of the first unit that failed in completion order, and no
\* unit is still executing.
C5_FirstFailureInCompletionOrder ==
  (RunEnded /\ SomeFailed)
    => /\ outcome = FailureOutcome(result[first_failed])
       /\ ExecutingUnits = {}

\* C5 (amended): when run() has ended after some unit failed, it failed with
\* the cause of a failed unit, no unit is still executing, and that unit is
\* the first that failed in completion order unless the first failure came
\* before as_completed started; then it is one of the units that had already
\* finished at that moment.
C5_FirstFailureYielded ==
  (RunEnded /\ SomeFailed)
    => /\ outcome.kind = "failure"
       /\ ExecutingUnits = {}
       /\ \E u \in Units :
            /\ ustate[u] = "failed"
            /\ outcome.cause = result[u]
            /\ u = first_failed \/ (u \in snap /\ first_failed \in snap)

\* C5 witness: run() ended with the failure of a unit that was not the first
\* to fail: both had failed before as_completed started.
C5_Witness ==
  /\ RunEnded
  /\ outcome.kind = "failure"
  /\ first_failed \in snap
  /\ outcome.cause # result[first_failed]
  /\ \E u \in Units : ustate[u] = "done"

\* C6 (as claimed): one unit is dispatched per canvas, no unit is made to
\* fail by anything but its own reply, and when run() has ended every unit
\* has received its reply and finished on it: a unit whose reply is a 200
\* with a known content type has written its file.
C6_UnitsFinishOnOwnReply ==
  /\ \A u \in Units : result[u].kind # "ClosedPoolError"
  /\ RunEnded =>
       /\ submitted = Len(canvases)
       /\ \A u \in Units :
            /\ Finished(u)
            /\ reply[u] # NoReply
            /\ OkReply(reply[u]) =>
                 (ustate[u] = "done" /\ UnitFileName(u) \in DOMAIN files)

\* C7: the sink never has more ticks than there are finished units, and when
\* run() returns a total over N canvases the sink has exactly N ticks.
C7_OneTickPerCompletedUnit ==
  /\ ticks <= Cardinality({u \in Units : Finished(u)})
  /\ (RunEnded /\ outcome.kind = "total") => ticks = Len(canvases)

\* C7 witness: a successful run over three canvases ended with three ticks.
C7_Witness ==
  /\ RunEnded
  /\ outcome.kind = "total"
  /\ Len(canvases) = 3
  /\ ticks = 3

\* The name slug(label) + extension of the JPEG of the i-th canvas "Pg i".
JpegName(i) == <<"p", "g", "-", Digits[i], ".jpg">>

\* C8: when run() has ended, every unit succeeded and the file names are
\* pairwise distinct, the run has made or rewritten exactly one file per
\* canvas, named slug(label) + extension, holding that canvas's whole
\* payload and nothing else, and run() returned the sum of the sizes.
C8_OneFilePerCanvas ==
  (RunEnded /\ AllSucceeded /\ DistinctNames)
    => /\ Downloaded = {JpegName(canvases[u].id) : u \in Units}
       /\ Cardinality(Downloaded) = Len(canvases)
       /\ \A u \in Units :
            /\ files[JpegName(canvases[u].id)]
                 = Payload(canvases[u].id, reply[u].size)
            /\ Len(files[JpegName(canvases[u].id)]) = reply[u].size
       /\ outcome = TotalOutcome(SumSizes(Len(canvases)))

\* C8 witness: three canvases of two bytes each, two workers and one
\* connection: three files of two bytes, total six.
C8_Witness ==
  /\ RunEnded /\ AllSucceeded
  /\ Len(canvases) = 3
  /\ n_workers = 2 /\ n_connections = 1
  /\ \A u \in Units : reply[u].size = 2
  /\ Cardinality(Downloaded) = 3
  /\ outcome = TotalOutcome(6)

\* Unit u has gone through the checks of its reply (lines 176-181).
Checked(u) == reply[u] # NoReply /\ ustate[u] # "replied"

\* C9: a unit whose reply is not a 200 failed with UpstreamError carrying the
\* status, even when the content type is unknown too; a unit whose reply is a
\* 200 with a content type that has no extension failed with
\* UnknownContentType carrying the content type (as read from the header:
\* lower-cased, without parameters); and a run that has ended after such a
\* failure has failed.
C9_UnitFailures ==
  /\ \A u \in Units :
       /\ (Checked(u) /\ reply[u].status # 200)
            => result[u] = [kind |-> "UpstreamError", url |-> canvases[u].id,
                            status |-> reply[u].status]
       /\ (Checked(u) /\ reply[u].status = 200
              /\ reply[u].header = UnknownHeader)
            => result[u] = [kind |-> "UnknownContentType",
                            url |-> canvases[u].id,
                            content_type |->
                              <<"application", "/", "x-unknown">>]
  /\ (RunEnded /\ \E u \in Units : result[u].kind = "UnknownContentType")
       => outcome.kind = "failure"

\* C9 witness: run() ended with the UnknownContentType of one unit as its
\* cause, and another unit got a 404 with an unknown content type.
C9_Witness ==
  /\ RunEnded
  /\ outcome.kind = "failure"
  /\ outcome.cause.kind = "UnknownContentType"
  /\ \E u \in Units :
       /\ reply[u] = Reply(404, UnknownHeader, 1)
       /\ result[u].kind = "UpstreamError"

\* A download unit has been started, or an image file exists.
DownloadStarted ==
  \/ \E u \in Units : ustate[u] # "new"
  \/ submitted > 0
  \/ Downloaded # {}

HasLabel(md, label) == \E i \in 1..Len(md) : md[i].label = label

\* Every step of the opening of the gallery has succeeded.
OpenSucceeded ==
  /\ Len(FindAllDigits(url, <<>>)) >= 2
  /\ archive_id = FindAllDigits(url, <<>>)[2]
  /\ gets = 2
  /\ manifest # NoManifest
  /\ canvases = PySlice(manifest.canvases, first, last)
  /\ \A l \in {"Contesto archivistico", "Titolo", "Tipologia"} :
       HasLabel(manifest.metadata, l)
  /\ main_error = NoError

\* C10: a download unit is started, or an image file written, only after
\* the archive id, the manifest, the selection and the directory name have
\* all been obtained; a failure of main() before run() leaves it aborted
\* with no unit submitted or started and no file written.
C10_OpenFailureAbortsBeforeDownloads ==
  /\ DownloadStarted => OpenSucceeded
  /\ main_error # NoError
       => (pc = "aborted" /\ ~DownloadStarted /\ Units = {})

\* C10 witness: the manifest was fetched and canvases were selected, the
\* directory name could not be derived, and main() is aborted.
C10_Witness ==
  /\ pc = "aborted"
  /\ main_error = MetadataFieldMissing("Tipologia")
  /\ gets = 2
  /\ canvases # <<>>

\* The positions of url where a numeric token starts.
TokenStarts(s) ==
  {i \in 1..Len(s) : IsDigit(s[i]) /\ (i = 1 \/ ~IsDigit(s[i - 1]))}

\* The numeric token of s that starts at position i.
TokenAt(s, i) ==
  SubSeq(s, i, CHOOSE j \in i..Len(s) :
                 /\ \A k \in i..j : IsDigit(s[k])
                 /\ (j = Len(s) \/ ~IsDigit(s[j + 1])))

\* The start of the second numeric token of s.
SecondStart(s) ==
  CHOOSE i \in TokenStarts(s) :
    Cardinality({j \in TokenStarts(s) : j < i}) = 1

\* line holds a single-quoted URL-shaped substring.
HoldsQuotedUrl(line) ==
  \E i \in 1..Len(line), j \in 1..Len(line) :
    /\ i < j
    /\ line[i] = "'"
    /\ line[j] = "'"
    /\ \A k \in (i + 1)..(j - 1) : IsUrlElement(line[k])

\* The lines of body that contain the marker.
MarkerLines(body) == {i \in 1..Len(body) : HasMarker(body[i])}

\* The first line of body that contains the marker.
FirstMarker(body) ==
  body[CHOOSE i \in MarkerLines(body) : \A j \in MarkerLines(body) : i <= j]

\* The landing page was decoded, has a marker line, and its first marker
\* line holds a quoted URL.
LandingUsable ==
  /\ landing.status = 200
  /\ landing.charset # NoCharset
  /\ MarkerLines(landing.body) # {}
  /\ HoldsQuotedUrl(FirstMarker(landing.body))

\* C11: once the landing page has been answered, a status other than 200
\* ends the opening with UpstreamError of that status; otherwise a decoded
\* body with no marker line ends it with ManifestNotFound; otherwise a first
\* marker line without a quoted URL ends it with MalformedManifestLine; in
\* each of these cases, and after any other failure of the first step, only
\* one GET was issued. The second GET is issued only otherwise, to the URL
\* quoted in the first marker line, and a status other than 200 ends the
\* opening with UpstreamError of that status.
C11_DiscoveryInOrder ==
  /\ gets <= 2
  /\ landing # NoLanding =>
       /\ landing.status # 200
            => main_error = DiscoveryError(landing.status) /\ gets = 1
       /\ (landing.status = 200 /\ landing.charset # NoCharset
              /\ MarkerLines(landing.body) = {})
            => main_error = ManifestNotFound /\ gets = 1
       /\ (landing.status = 200 /\ landing.charset # NoCharset
              /\ MarkerLines(landing.body) # {}
              /\ ~HoldsQuotedUrl(FirstMarker(landing.body)))
            => main_error = MalformedManifestLine /\ gets = 1
       /\ ~LandingUsable => gets = 1 /\ pc = "aborted"
       /\ LandingUsable =>
            /\ pc # "aborted" \/ gets = 2
            /\ HasMarker(FirstMarker(landing.body))
            /\ \E i \in 1..Len(FirstMarker(landing.body)) :
                 /\ FirstMarker(landing.body)[i] = "'"
                 /\ SubSeq(FirstMarker(landing.body), i + 1,
                           i + Len(manifest_url)) = manifest_url
  /\ gets = 2 => LandingUsable /\ manifest_reply # NoManifestReply
  /\ manifest_reply # NoManifestReply =>
       /\ gets = 2
       /\ manifest_reply.status # 200
            => /\ main_error = DiscoveryError(manifest_reply.status)
               /\ manifest = NoManifest

\* C11 witness: the first marker line of a decoded landing page held no
\* quoted URL although a later line did, and the opening ended with
\* MalformedManifestLine after one GET.
C11_Witness ==
  /\ landing.status = 200
  /\ Cardinality(MarkerLines(landing.body)) = 2
  /\ main_error = MalformedManifestLine
  /\ gets = 1

\* C13: once __get_archive_id has run, a locator with fewer than two numeric
\* tokens has ended the opening with MalformedLocator, and a locator with at
\* least two has given its second numeric token as the archive id and no
\* MalformedLocator; when the opening ended with MalformedLocator no GET
\* was issued and no reply received.
C13_ArchiveIdIsSecondToken ==
  /\ pc # "main" =>
       IF Cardinality(TokenStarts(url)) < 2
         THEN main_error = MalformedLocator /\ pc = "aborted"
       ELSE /\ archive_id = TokenAt(url, SecondStart(url))
            /\ main_error # MalformedLocator
  /\ main_error = MalformedLocator =>
       gets = 0 /\ landing = NoLanding /\ manifest_reply = NoManifestReply

\* C13 witness: a locator with three numeric tokens, the first at its very
\* start, gave its second token, of two digits, as the archive id.
C13_Witness ==
  /\ pc # "main"
  /\ Cardinality(TokenStarts(url)) = 3
  /\ 1 \in TokenStarts(url)
  /\ archive_id = <<"2", "0">>

\* The index one past the last selected canvas: last, or the length of the
\* manifest's canvas list when last is absent.
SelectionEnd == IF last = None THEN Len(manifest.canvases) ELSE last[1]

\* canvases has been assigned from the manifest (line 58).
SelectionMade ==
  /\ manifest # NoManifest
  /\ pc # "select"
  /\ main_error # KeyError("sequences")

\* C12: for 0 <= first <= last <= len(canvases), with last read as
\* len(canvases) when absent, the selection made at opening time is the
\* manifest's canvases first+1 .. last in manifest order, so it has last -
\* first items, and so many are gallery_length, once assigned, and the total
\* given to the progress sink, once given.
C12_SelectionIsRange ==
  (SelectionMade /\ first <= SelectionEnd
     /\ SelectionEnd <= Len(manifest.canvases)) =>
    /\ canvases =
         [i \in 1..(SelectionEnd - first) |-> manifest.canvases[first + i]]
    /\ Len(canvases) = SelectionEnd - first
    /\ dirname # <<>> => gallery_length = SelectionEnd - first
    /\ total # -1 => total = SelectionEnd - first

\* C12 witness: of a manifest with more canvases than last, the canvases
\* from index 1 up to last were selected, at least one, and their number was
\* given to the progress sink.
C12_Witness ==
  /\ first = 1
  /\ last # None
  /\ first < last[1]
  /\ last[1] <= Len(manifest.canvases)
  /\ canvases = SubSeq(manifest.canvases, 2, last[1])
  /\ total = last[1] - 1

\* The positions of the metadata entries whose label is exactly label.
EntryIndexes(md, label) == {i \in 1..Len(md) : md[i].label = label}

\* The value of the first entry of md, in manifest order, with this label.
FirstValue(md, label) ==
  md[CHOOSE i \in EntryIndexes(md, label) :
       \A j \in EntryIndexes(md, label) : i <= j].value

\* C14: every value the program has looked up in the manifest's metadata,
\* for the directory name and for gallery_info, is the value of the first
\* entry with that label, the same at both times for the labels read
\* twice; a lookup has failed with MetadataFieldMissing of a label exactly
\* when no entry has that label; and the manifest is still the one received.
C14_MetadataValueIsFirstMatch ==
  /\ manifest # NoManifest => manifest = manifest_reply.manifest
  /\ dirname # <<>> =>
       /\ \A l \in {"Contesto archivistico", "Titolo", "Tipologia"} :
            EntryIndexes(manifest.metadata, l) # {}
       /\ dirname =
            slugify(FirstValue(manifest.metadata, "Contesto archivistico")
                      \o <<"-">> \o FirstValue(manifest.metadata, "Titolo")
                      \o <<"-">> \o FirstValue(manifest.metadata, "Tipologia")
                      \o <<"-">> \o archive_id)
  /\ info # NoInfo =>
       /\ \A l \in {"Datazione", "Conservato da"} :
            EntryIndexes(manifest.metadata, l) # {}
       /\ info =
            [url |-> url,
             subtitles |-> FirstValue(manifest.metadata, "Titolo"),
             category |-> FirstValue(manifest.metadata, "Tipologia"),
             director |-> FirstValue(manifest.metadata, "Datazione"),
             comments |->
               FirstValue(manifest.metadata, "Contesto archivistico"),
             actors |-> FirstValue(manifest.metadata, "Conservato da")]
  /\ main_error.kind = "MetadataFieldMissing" =>
       EntryIndexes(manifest.metadata, main_error.label) = {}

\* C14 witness: the metadata has two entries labelled "Titolo", and
\* gallery_info, reading the label after the directory name had read it,
\* got the value of the first.
C14_Witness ==
  /\ Cardinality(EntryIndexes(manifest.metadata, "Titolo")) = 2
  /\ info # NoInfo
  /\ info.subtitles = <<"1", "8">>
  /\ dirname # <<>>

\* http_reply.data of unit u.
UnitPayload(u) == Payload(canvases[u].id, reply[u].size)

\* C15: when run() has ended, every unit succeeded and two units derived
\* the same file name, run() returned the sum of all byte counts and the
\* file holds the full payload of one of the two units (the one that wrote
\* later), never a mixture of the two.
C15_CollisionKeepsOnePayload ==
  (RunEnded /\ AllSucceeded) =>
    \A u, v \in Units :
      (u # v /\ UnitFileName(u) = UnitFileName(v)) =>
        /\ outcome = TotalOutcome(SumSizes(Len(canvases)))
        /\ files[UnitFileName(u)] \in {UnitPayload(u), UnitPayload(v)}

\* C16: when the opening of a gallery whose manifest lacks the sequences
\* path, the metadata array or the canvases' labels has ended in a failure
\* (other than the user declining to reuse the directory), that failure is
\* one of the taxonomy.
C16_OtherShapeFailsInTaxonomy ==
  (manifest.shape # "ok" /\ main_error \notin {NoError, Aborted}) =>
    main_error.kind \in TaxonomyKinds

\* C17 as stated: once a unit of work has been scheduled, the progress sink
\* has already been given the number of selected canvases.
C17_TotalBeforeScheduling == submitted > 0 => total = Len(canvases)

\* C17: the progress sink is given its total exactly once, the number of
\* selected canvases, when every unit has been submitted (units may by then
\* have started, finished or failed) and before any tick: the total is
\* unset while run() is submitting and set from then on, it never changes
\* once set, and no tick precedes it.
C17_TotalAfterSubmitsBeforeTicks ==
  /\ [](/\ pc = "submit" => total = -1 /\ ticks = 0
        /\ pc # "submit" =>
             total = Len(canvases) /\ submitted = Len(canvases)
        /\ ticks > 0 => total = Len(canvases))
  /\ [][/\ total # -1 => total' = total
        /\ total' # total =>
             /\ submitted = Len(canvases)
             /\ ticks' = 0
             /\ \A u \in Units : ustate[u] # "new"]_vars

\* C17 witness: the sink has just been given its total, 2 or more, no tick
\* has been made, and a unit has already finished.
C17_Witness ==
  /\ pc = "as_completed"
  /\ total = Len(canvases)
  /\ total >= 2
  /\ ticks = 0
  /\ \E u \in Units : ustate[u] = "done"

\* Unit u received a reply that is not 200 or whose content type has no
\* extension.
BadReply(u) ==
  /\ reply[u] # NoReply
  /\ \/ reply[u].status # 200
     \/ guess_extension(get_content_type(reply[u].header)) = NoExtension

\* The units that have opened their destination file.
Writers == {u \in Units : ustate[u] \in {"opened", "written", "done"}}

\* C18: a unit whose reply is not 200, or has a content type without an
\* extension, fails on its checks and never opens a file; the step in which
\* a unit fails changes no file, and files change only in the open and
\* write steps of units whose reply passed both checks; so the files made
\* or rewritten since run() was entered are always exactly those opened by
\* such units and, when run() has ended, exactly those of the units that
\* succeeded, every other file being as run() found it.
C18_FailedUnitsTouchNoFile ==
  /\ [](/\ \A u \in Units : BadReply(u) => ustate[u] \in {"replied", "failed"}
        /\ Downloaded = {UnitFileName(u) : u \in Writers}
        /\ DOMAIN entered \subseteq DOMAIN files
        /\ RunEnded =>
             Downloaded =
               {UnitFileName(u) : u \in {v \in Units : ustate[v] = "done"}})
  /\ [][/\ \A u \in Units :
             (ustate[u] # "failed" /\ ustate'[u] = "failed")
               => /\ files' = files
                  /\ ustate[u] \notin {"named", "opened", "written"}
        /\ files' # files =>
             \E u \in Units :
               /\ ~BadReply(u)
               /\ ustate[u] \in {"named", "opened"}
               /\ ustate'[u] \in {"opened", "written"}]_vars

\* C18 witness: run() has ended; one unit failed on a 404, another on a
\* content type without extension, a third succeeded, and the only file
\* made is the third's.
C18_Witness ==
  /\ RunEnded
  /\ \E u, v, w \in Units :
       /\ result[u] = UpstreamError(canvases[u].id, 404)
       /\ result[v].kind = "UnknownContentType"
       /\ ustate[w] = "done"
       /\ Downloaded = {UnitFileName(w)}

\* C19: run() is never stuck: in every reachable state either run() has
\* ended, with a total or a failure, or a step is possible (a reply
\* arrives, a worker or the main thread moves); in particular no unit waits
\* for a connection that can never come.
C19_RunNeverStuck == RunEnded \/ ENABLED Next

====
